---- MODULE Spec2Model ----
(***************************************************************************)
(* State machine of src/web_app.py: the SessionManager store, the         *)
(* SocketIO event handlers of WebAgentApp and the two background workers  *)
(* (_process_agent_message, _browser_stream_worker).                      *)
(*                                                                         *)
(* Every inbound transport event takes the next free slot 1..MaxEvents.   *)
(* The slot carries the handler's locals and, when the handler spawns a   *)
(* threading.Thread, the locals of that thread.  A session record (the    *)
(* dict built by create_session) is identified by the slot of the event   *)
(* that built it, so that two records built for one session id are two    *)
(* different objects, as they are in Python.                              *)
(***************************************************************************)
EXTENDS Naturals, Sequences, FiniteSets

\* ------------------------------------------------------------- bounds
MaxEvents == 4
NumSids == 2
CmdEvents == 3
StreamEvents == 4
MaxFrames == 2

Slots == 1..MaxEvents
Sids == 1..NumSids

\* get_session's "absent" (dict.get returns None); also "no thread holds the lock"
Absent == 0

VARIABLES
    n,        \* number of transport events received so far
    task,     \* per slot: the handler / background thread locals
    store,    \* SessionManager.sessions : session id -> record (or Absent)
    lock,     \* SessionManager.lock : slot holding it, or Absent
    srec,     \* the session dicts, by record identity
    hnd,      \* the automation handle (agent) owned by each record
    given,    \* per id: records create_session returned since the id was last deleted
    stopped,  \* per id: a stop_browser_stream was handled and no start arrived since
    frames    \* per id: browser_stream_frame events emitted while stopped[id]

vars == <<n, task, store, lock, srec, hnd, given, stopped, frames>>

\* ------------------------------------------------------------- values
IdleTask ==
    [kind |-> "none", pc |-> "idle", sid |-> Absent, msg |-> << >>,
     sess |-> Absent, out |-> << >>, acts |-> << >>, resp |-> "none",
     raised |-> FALSE, got |-> "none", rooms |-> {}]

NoRecord ==
    [id |-> Absent, status |-> "none", agent |-> FALSE, error |-> FALSE,
     last_activity |-> 0, message_history |-> << >>, streaming |-> "unset",
     browser_url |-> "none"]

\* the dict literal of create_session: lines 59-70 when the agent was built,
\* lines 79-91 when its constructor raised
SessionDataNoError(s, built, now) ==
    [id |-> s,
     status |-> "initialized",
     agent |-> built,
     error |-> FALSE,
     last_activity |-> now,
     message_history |-> << >>,
     streaming |-> "unset",
     browser_url |-> "about:blank"]

SessionData(s, built, now) ==
    [id |-> s,
     status |-> IF built THEN "initialized" ELSE "error",
     agent |-> built,
     error |-> ~built,
     last_activity |-> now,
     message_history |-> << >>,
     streaming |-> "unset",
     browser_url |-> IF built THEN "about:blank" ELSE "Error"]

\* a freshly constructed agent: no driver yet, cleanup() never called, no call running
NoHandleStarted ==
    [driver |-> "live", cleaned |-> 0, calls |-> {}, loc |-> "about:blank"]
NoHandle == [driver |-> "none", cleaned |-> 0, calls |-> {}, loc |-> "none"]

\* ------------------------------------------------------------- messages
\* A message is the sequence of the words the text contains; the empty
\* sequence is the text that message.strip() leaves empty.
Contains(m, w) == \E i \in 1..Len(m) : m[i] = w

\* the if / elif chain of lines 617, 635, 661, 684
IntentSearchFirst(m) ==
    IF Contains(m, "search") THEN "search"
    ELSE IF Contains(m, "navigate") \/ Contains(m, "go to") THEN "navigate"
    ELSE IF Contains(m, "screenshot") \/ Contains(m, "capture") THEN "screenshot"
    ELSE "fallback"
Intent(m) ==
    IF Contains(m, "navigate") \/ Contains(m, "go to") THEN "navigate"
    ELSE IF Contains(m, "search") THEN "search"
    ELSE IF Contains(m, "screenshot") \/ Contains(m, "capture") THEN "screenshot"
    ELSE "fallback"

\* the if / elif chain of lines 619, 623, 627, 631
DestinationGoogle(m) == "google"
Destination(m) ==
    IF Contains(m, "google") THEN "google"
    ELSE IF Contains(m, "github") THEN "github"
    ELSE IF Contains(m, "example") THEN "example"
    ELSE "none"

\* ------------------------------------------------------------- helpers
Min(a, b) == IF a < b THEN a ELSE b

NewTask(k, s, m) == [IdleTask EXCEPT !.kind = k, !.sid = s, !.msg = m]

\* get_session, line 97: a plain dict lookup, the lock is not taken
GetSession(s) == store[s]

\* line 45: if session_id in self.sessions
CreateHitNever(s) == FALSE
CreateHit(s) == store[s] # Absent

\* the room argument of the emits of a background thread: room=session_id,
\* the id the thread was started with (lines 582, 724-729, 549-554)
RoomOfFirstId(t) == 1
Room(t) == task[t].sid

\* line 240, "if not message" on the stripped text
EmptyMessageNever(m) == FALSE
EmptyMessage(m) == m = << >>

\* lines 44, 101, 107: with self.lock, which blocks while another thread holds it
LockIgnored == TRUE
LockFree == lock = Absent

\* line 108: if session_id in self.sessions
CleanupHitAlways(s) == TRUE
CleanupHit(s) == store[s] # Absent

\* line 116: del self.sessions[session_id]
DeleteKept(s) == store
Delete(s) == [store EXCEPT ![s] = Absent]

\* lines 588, 513: not hasattr(agent, 'driver') or agent.driver is None
DriverMissing(r) == ~srec[r].agent \/ hnd[r].driver = "none"

EnterCall(h, r, t) == [h EXCEPT ![r].calls = @ \cup {t}]
LeaveCall(h, r, t) == [h EXCEPT ![r].calls = @ \ {t}]

Init ==
    /\ n = 0
    /\ task = [t \in Slots |-> IdleTask]
    /\ store = [s \in Sids |-> Absent]
    /\ lock = Absent
    /\ srec = [r \in Slots |-> NoRecord]
    /\ hnd = [r \in Slots |-> NoHandle]
    /\ given = [s \in Sids |-> {}]
    /\ stopped = [s \in Sids |-> FALSE]
    /\ frames = [s \in Sids |-> 0]

\* ------------------------------------------------- SessionManager, create
\* handle_initialize_session up to the point where create_session either
\* returns the existing record (lines 44-46) or starts building the agent
\* with the lock held (line 50).  join_room and the emit follow the return.
InitializeSession(s) ==
    /\ n < MaxEvents
    /\ LockFree
    /\ n' = n + 1
    /\ IF CreateHit(s)
       THEN /\ task' = [task EXCEPT ![n + 1] =
                   [NewTask("init", s, << >>) EXCEPT
                       !.pc = "done", !.sess = store[s],
                       !.out = <<"session_initialized">>]]
            /\ given' = [given EXCEPT ![s] = @ \cup {store[s]}]
            /\ UNCHANGED lock
       ELSE /\ task' = [task EXCEPT ![n + 1] =
                   [NewTask("init", s, << >>) EXCEPT !.pc = "constructing"]]
            /\ lock' = n + 1
            /\ UNCHANGED given
    /\ UNCHANGED <<store, srec, hnd, stopped, frames>>

\* create_session lines 50-74 (the constructor returned) or 76-93 (it
\* raised): the record is published and returned, the lock released; then
\* lines 219-225 of the handler.
CreateConstruct(t) ==
    /\ task[t].pc = "constructing"
    /\ \E built \in BOOLEAN :
          /\ srec' = [srec EXCEPT ![t] = SessionData(task[t].sid, built, t)]
          /\ hnd' = [hnd EXCEPT ![t] = NoHandle]
    /\ store' = [store EXCEPT ![task[t].sid] = t]
    /\ given' = [given EXCEPT ![task[t].sid] = @ \cup {t}]
    /\ lock' = Absent
    /\ task' = [task EXCEPT ![t].pc = "done", ![t].sess = t,
                            ![t].out = Append(@, "session_initialized")]
    /\ UNCHANGED <<n, stopped, frames>>

\* ------------------------------------------------ SessionManager, cleanup
\* handle_disconnect -> cleanup_session, lines 107-112: up to the return for
\* an absent id, the deletion of a record without agent, or the entry into
\* agent.cleanup() with the lock held.
Disconnect(s) ==
    /\ n < MaxEvents
    /\ LockFree
    /\ n' = n + 1
    /\ LET t == n + 1
           r == store[s]
       IN  IF ~CleanupHit(s)
           THEN /\ task' = [task EXCEPT ![t] =
                       [NewTask("disconnect", s, << >>) EXCEPT !.pc = "done"]]
                /\ UNCHANGED <<store, lock, hnd, given>>
           ELSE IF r = Absent
           THEN \* self.sessions[session_id] on a missing key: KeyError
                /\ task' = [task EXCEPT ![t] =
                       [NewTask("disconnect", s, << >>) EXCEPT
                           !.pc = "done", !.raised = TRUE]]
                /\ UNCHANGED <<store, lock, hnd, given>>
           ELSE IF srec[r].agent
           THEN /\ task' = [task EXCEPT ![t] =
                       [NewTask("disconnect", s, << >>) EXCEPT
                           !.pc = "cleaning", !.sess = r]]
                /\ lock' = t
                /\ hnd' = [EnterCall(hnd, r, t) EXCEPT
                              ![r].cleaned = Min(@ + 1, 2)]
                /\ UNCHANGED <<store, given>>
           ELSE /\ task' = [task EXCEPT ![t] =
                       [NewTask("disconnect", s, << >>) EXCEPT
                           !.pc = "done", !.sess = r]]
                /\ store' = Delete(s)
                /\ given' = [given EXCEPT ![s] = {}]
                /\ UNCHANGED <<lock, hnd>>
    /\ UNCHANGED <<srec, stopped, frames>>

\* lines 113-114: except Exception catches what agent.cleanup() raised, so
\* nothing reaches the caller of cleanup_session
CleanupPropagatesFailure(failed) == failed
CleanupPropagates(failed) == FALSE

\* cleanup_session lines 112-117: agent.cleanup() returns or raises (the
\* exception is logged), the record is deleted in the finally block, the
\* lock released.  What cleanup() leaves in agent.driver is the agent's
\* business: either value.
CleanupReturn(t) ==
    /\ task[t].pc = "cleaning"
    /\ LET r == task[t].sess
       IN  \E d \in {hnd[r].driver, "none"} :
              hnd' = [LeaveCall(hnd, r, t) EXCEPT ![r].driver = d]
    /\ store' = Delete(task[t].sid)
    /\ given' = [given EXCEPT ![task[t].sid] = {}]
    /\ lock' = Absent
    /\ \E failed \in BOOLEAN :
          task' = [task EXCEPT
              ![t].pc = "done",
              ![t].resp = IF failed THEN "cleanup_raised" ELSE "cleanup_returned",
              ![t].raised = CleanupPropagates(failed)]
    /\ UNCHANGED <<n, srec, stopped, frames>>

\* ------------------------------------------------------- send_message
\* handle_message lines 237-247: the empty-message and missing-session
\* rejections, else the handler goes on to update_activity.
SendMessage(s, m) ==
    /\ n < MaxEvents
    /\ n' = n + 1
    /\ LET t == n + 1
       IN  IF EmptyMessage(m)
           THEN task' = [task EXCEPT ![t] =
                    [NewTask("message", s, m) EXCEPT
                        !.pc = "done", !.out = <<"error">>]]
           ELSE IF GetSession(s) = Absent
           THEN task' = [task EXCEPT ![t] =
                    [NewTask("message", s, m) EXCEPT
                        !.pc = "done", !.out = <<"error">>]]
           ELSE task' = [task EXCEPT ![t] =
                    [NewTask("message", s, m) EXCEPT
                        !.pc = "m_touch", !.sess = GetSession(s)]]
    /\ UNCHANGED <<store, lock, srec, hnd, given, stopped, frames>>

\* update_activity, lines 101-103, on whatever record the store holds now
Touch(recs, s, now) ==
    IF store[s] # Absent
    THEN [recs EXCEPT ![store[s]].last_activity = now]
    ELSE recs

\* handle_message lines 250-271: update_activity (takes the lock), the user
\* message appended to the record the handler looked up, message_received
\* and typing_start emitted, the processing thread started.
MsgAccept(t) ==
    /\ task[t].pc = "m_touch"
    /\ LockFree
    /\ srec' = [Touch(srec, task[t].sid, t) EXCEPT
                   ![task[t].sess].message_history = Append(@, <<"user", t>>)]
    /\ task' = [task EXCEPT
                   ![t].pc = "p_get",
                   ![t].out = @ \o <<"message_received", "typing_start">>]
    /\ UNCHANGED <<n, store, lock, hnd, given, stopped, frames>>

\* ------------------------------------------------ _process_agent_message
\* lines 571-585: the store lookup (return when the session is gone), the
\* status set to processing, the status_update emit.  An emit that raises
\* lands in the handler of lines 731-742.
ProcGet(t) ==
    /\ task[t].pc = "p_get"
    /\ LET r == GetSession(task[t].sid)
       IN  IF r = Absent
           THEN /\ task' = [task EXCEPT ![t].pc = "done", ![t].sess = Absent]
                /\ UNCHANGED srec
           ELSE \E emitRaises \in BOOLEAN :
                IF emitRaises
                THEN /\ srec' = [srec EXCEPT ![r].status = "error"]
                     /\ task' = [task EXCEPT
                            ![t].pc = "done", ![t].sess = r,
                            ![t].rooms = @ \cup {Room(t)},
                            ![t].out = @ \o <<"typing_stop", "error">>]
                ELSE /\ srec' = [srec EXCEPT ![r].status = "processing"]
                     /\ task' = [task EXCEPT
                            ![t].pc = "p_check", ![t].sess = r,
                            ![t].rooms = @ \cup {Room(t)},
                            ![t].out = Append(@, "status_update_processing")]
    /\ UNCHANGED <<n, store, lock, hnd, given, stopped, frames>>

\* what lines 601-606 do when driver initialization raises
InitFailed(recs, r) == recs

\* what lines 601-606 emit
InitFailedOut == <<"error">>

\* lines 588-590: the driver test; with no driver the task enters
\* agent._initialize_driver().  An agent of None has no such method, which
\* raises inside the try of line 589.
ProcCheck(t) ==
    /\ task[t].pc = "p_check"
    /\ LET r == task[t].sess
       IN  IF ~DriverMissing(r)
           THEN /\ task' = [task EXCEPT ![t].pc = "p_act"]
                /\ UNCHANGED <<srec, hnd>>
           ELSE IF ~srec[r].agent
           THEN /\ task' = [task EXCEPT ![t].pc = "done",
                                        ![t].rooms = @ \cup {Room(t)},
                                        ![t].out = @ \o InitFailedOut]
                /\ srec' = InitFailed(srec, r)
                /\ UNCHANGED hnd
           ELSE /\ task' = [task EXCEPT ![t].pc = "p_init"]
                /\ hnd' = EnterCall(hnd, r, t)
                /\ UNCHANGED srec
    /\ UNCHANGED <<n, store, lock, given, stopped, frames>>

\* line 590, agent._initialize_driver() returns (agent.driver is set, the
\* task goes on into line 591) or raises (lines 601-606).
ProcInitDriver(t) ==
    /\ task[t].pc = "p_init"
    /\ LET r == task[t].sess
       IN  \E ok \in BOOLEAN :
           IF ok
           THEN /\ hnd' = [hnd EXCEPT ![r].driver = "live"]
                /\ task' = [task EXCEPT ![t].pc = "p_blank"]
                /\ UNCHANGED srec
           ELSE /\ hnd' = LeaveCall(hnd, r, t)
                /\ task' = [task EXCEPT ![t].pc = "done",
                                        ![t].rooms = @ \cup {Room(t)},
                                        ![t].out = @ \o InitFailedOut]
                /\ srec' = InitFailed(srec, r)
    /\ UNCHANGED <<n, store, lock, given, stopped, frames>>

\* lines 591-599: _initialize_advanced_visual_elements() and
\* driver.get("about:blank") return, or one of them raises (lines 601-606).
ProcInitBlank(t) ==
    /\ task[t].pc = "p_blank"
    /\ LET r == task[t].sess
       IN  \E ok \in BOOLEAN :
           IF ok
           THEN /\ hnd' = [LeaveCall(hnd, r, t) EXCEPT ![r].loc = "about:blank"]
                /\ task' = [task EXCEPT
                       ![t].pc = "p_act",
                       ![t].rooms = @ \cup {Room(t)},
                       ![t].out = Append(@, "status_update_processing")]
                /\ UNCHANGED srec
           ELSE /\ hnd' = LeaveCall(hnd, r, t)
                /\ task' = [task EXCEPT ![t].pc = "done",
                                        ![t].rooms = @ \cup {Room(t)},
                                        ![t].out = @ \o InitFailedOut]
                /\ srec' = InitFailed(srec, r)
    /\ UNCHANGED <<n, store, lock, given, stopped, frames>>

\* lines 689-691: after a branch, the task reads agent.driver and, when it
\* is set, enters the current_url / title reads
RefreshPc(h, r) == IF h[r].driver = "live" THEN "p_info" ELSE "p_finish"
RefreshCalls(h, r, t) ==
    IF h[r].driver = "live" THEN EnterCall(h, r, t) ELSE LeaveCall(h, r, t)

\* lines 704-707
Failed(t) ==
    [task EXCEPT ![t].pc = "p_finish", ![t].resp = "error",
                 ![t].acts = <<<<"error_handling", "failed">>>>]

\* lines 615-687, the branch taken and its first call into the handle
ProcAct(t) ==
    /\ task[t].pc = "p_act"
    /\ LET r == task[t].sess
           m == task[t].msg
           i == Intent(m)
       IN  IF i = "navigate" /\ Destination(m) = "none"
           THEN /\ task' = [task EXCEPT
                       ![t].pc = RefreshPc(hnd, r),
                       ![t].resp = "navigate_guidance",
                       ![t].acts = <<<<"parse_navigation_request", "completed">>>>]
                /\ hnd' = RefreshCalls(hnd, r, t)
           ELSE IF i = "fallback"
           THEN /\ task' = [task EXCEPT
                       ![t].pc = RefreshPc(hnd, r),
                       ![t].resp = "fallback_guidance",
                       ![t].acts = <<<<"analyze_request", "completed">>>>]
                /\ hnd' = RefreshCalls(hnd, r, t)
           ELSE IF i = "screenshot"
           THEN /\ task' = [task EXCEPT ![t].pc = "p_shot"]
                /\ hnd' = EnterCall(hnd, r, t)
           ELSE IF hnd[r].driver = "none"
           THEN \* agent.driver.get / .current_url on a driver of None
                /\ task' = Failed(t)
                /\ UNCHANGED hnd
           ELSE /\ task' = [task EXCEPT
                       ![t].pc = IF i = "navigate" THEN "p_nav" ELSE "p_url"]
                /\ hnd' = EnterCall(hnd, r, t)
    /\ UNCHANGED <<n, store, lock, srec, given, stopped, frames>>

\* lines 620-630: agent.driver.get(url) returns or raises
ProcNav(t) ==
    /\ task[t].pc = "p_nav"
    /\ LET r == task[t].sess
           d == Destination(task[t].msg)
       IN  \E ok \in BOOLEAN :
           IF ok
           THEN LET h == [hnd EXCEPT ![r].loc = d]
                IN  /\ task' = [task EXCEPT
                           ![t].pc = RefreshPc(h, r),
                           ![t].resp = d,
                           ![t].got = "returned",
                           ![t].acts = <<<<"navigate_to_" \o d, "completed">>>>]
                    /\ hnd' = RefreshCalls(h, r, t)
           ELSE /\ task' = [Failed(t) EXCEPT ![t].got = "raised"]
                /\ hnd' = LeaveCall(hnd, r, t)
    /\ UNCHANGED <<n, store, lock, srec, given, stopped, frames>>

\* lines 636-659: the current_url reads return or raise; on google.com the
\* task enters find_element, elsewhere it answers with the guidance text
ProcSearchUrl(t) ==
    /\ task[t].pc = "p_url"
    /\ LET r == task[t].sess
       IN  \E ok \in BOOLEAN :
           IF ~ok
           THEN /\ task' = Failed(t)
                /\ hnd' = LeaveCall(hnd, r, t)
           ELSE IF hnd[r].loc = "google"
           THEN /\ task' = [task EXCEPT ![t].pc = "p_box"]
                /\ UNCHANGED hnd
           ELSE /\ task' = [task EXCEPT
                       ![t].pc = RefreshPc(hnd, r),
                       ![t].resp = "search_guidance",
                       ![t].acts = <<<<"search_validation", "completed">>>>]
                /\ hnd' = RefreshCalls(hnd, r, t)
    /\ UNCHANGED <<n, store, lock, srec, given, stopped, frames>>

\* lines 640-653: find_element / send_keys return or raise
ProcSearchBox(t) ==
    /\ task[t].pc = "p_box"
    /\ LET r == task[t].sess
       IN  /\ \E ok \in BOOLEAN :
                task' = [task EXCEPT
                    ![t].pc = RefreshPc(hnd, r),
                    ![t].resp = IF ok THEN "searched" ELSE "search_failed",
                    ![t].acts =
                        IF ok
                        THEN << <<"find_search_box", "completed">>,
                                <<"enter_search_terms", "completed">>,
                                <<"submit_search", "completed">> >>
                        ELSE <<<<"search_attempt", "failed">>>>]
           /\ hnd' = RefreshCalls(hnd, r, t)
    /\ UNCHANGED <<n, store, lock, srec, given, stopped, frames>>

\* lines 663-682: save_advanced_screenshot() returns a file, returns
\* nothing usable, or raises
ProcShot(t) ==
    /\ task[t].pc = "p_shot"
    /\ LET r == task[t].sess
       IN  /\ \E res \in {"file", "nofile", "raise"} :
                task' = [task EXCEPT
                    ![t].pc = RefreshPc(hnd, r),
                    ![t].resp = "screenshot_" \o res,
                    ![t].acts = <<<<"capture_screenshot",
                                   IF res = "file" THEN "completed" ELSE "failed">>>>,
                    ![t].rooms = IF res = "file" THEN @ \cup {Room(t)} ELSE @,
                    ![t].out = IF res = "file"
                               THEN Append(@, "browser_screenshot") ELSE @]
           /\ hnd' = RefreshCalls(hnd, r, t)
    /\ UNCHANGED <<n, store, lock, srec, given, stopped, frames>>

\* lines 692-702: current_url and title are read and mirrored into the
\* record, browser_info is emitted; a failure is ignored
ProcInfo(t) ==
    /\ task[t].pc = "p_info"
    /\ LET r == task[t].sess
       IN  /\ \E ok \in BOOLEAN :
                IF ok
                THEN /\ srec' = [srec EXCEPT ![r].browser_url = hnd[r].loc]
                     /\ task' = [task EXCEPT ![t].pc = "p_finish",
                                     ![t].rooms = @ \cup {Room(t)},
                                     ![t].out = Append(@, "browser_info")]
                ELSE /\ task' = [task EXCEPT ![t].pc = "p_finish"]
                     /\ UNCHANGED srec
           /\ hnd' = LeaveCall(hnd, r, t)
    /\ UNCHANGED <<n, store, lock, given, stopped, frames>>

\* lines 724-729: the three emits that end a command, in program order
FinishOutResponseFirst == <<"agent_response", "typing_stop", "status_update_ready">>
FinishOut == <<"typing_stop", "agent_response", "status_update_ready">>

\* lines 709-729: the agent message appended, status ready, typing_stop,
\* agent_response and status_update emitted
ProcFinish(t) ==
    /\ task[t].pc = "p_finish"
    /\ LET r == task[t].sess
       IN  srec' = [srec EXCEPT
                       ![r].message_history = Append(@, <<"agent", t>>),
                       ![r].status = "ready"]
    /\ task' = [task EXCEPT
                   ![t].pc = "done",
                   ![t].rooms = @ \cup {Room(t)},
                   ![t].out = @ \o FinishOut]
    /\ UNCHANGED <<n, store, lock, hnd, given, stopped, frames>>

\* ---------------------------------------------------------------- connect
\* line 199: the one event handle_connect emits, carrying request.sid
ConnectedOutNone == << >>
ConnectedOut == <<"connected">>

\* handle_connect, lines 196-199: a log line and the connected event; the
\* session manager is not called.
Connect(s) ==
    /\ n < MaxEvents
    /\ n' = n + 1
    /\ task' = [task EXCEPT ![n + 1] =
           [NewTask("connect", s, << >>) EXCEPT
               !.pc = "done", !.out = ConnectedOut]]
    /\ UNCHANGED <<store, lock, srec, hnd, given, stopped, frames>>

\* ----------------------------------------------- get_browser_screenshot
\* line 290: the agent has no driver yet
NotInitializedNever(r) == FALSE
NotInitialized(r) == hnd[r].driver = "none"

\* handle_screenshot_request, lines 281-297: no record, or a record whose
\* agent is None, is answered 'No active session found'; an agent with no
\* driver 'Browser session not initialized'; else the handler itself
\* enters agent.save_advanced_screenshot().
ScreenshotRequest(s) ==
    /\ n < MaxEvents
    /\ n' = n + 1
    /\ LET t == n + 1
           r == GetSession(s)
       IN  IF r = Absent \/ ~srec[r].agent
           THEN /\ task' = [task EXCEPT ![t] =
                       [NewTask("shot", s, << >>) EXCEPT
                           !.pc = "done", !.sess = r,
                           !.out = <<"error: No active session found">>]]
                /\ UNCHANGED hnd
           ELSE IF NotInitialized(r)
           THEN /\ task' = [task EXCEPT ![t] =
                       [NewTask("shot", s, << >>) EXCEPT
                           !.pc = "done", !.sess = r,
                           !.out = <<"error: Browser session not initialized">>]]
                /\ UNCHANGED hnd
           ELSE /\ task' = [task EXCEPT ![t] =
                       [NewTask("shot", s, << >>) EXCEPT
                           !.pc = "s_shot", !.sess = r]]
                /\ hnd' = EnterCall(hnd, r, t)
    /\ UNCHANGED <<store, lock, srec, given, stopped, frames>>

\* lines 296-312: save_advanced_screenshot() returns a file
\* (browser_screenshot), returns nothing usable or raises (error)
ScreenshotReturn(t) ==
    /\ task[t].pc = "s_shot"
    /\ \E res \in {"file", "nofile", "raise"} :
          task' = [task EXCEPT
              ![t].pc = "done",
              ![t].resp = "screenshot_" \o res,
              ![t].out = IF res = "file"
                         THEN <<"browser_screenshot">>
                         ELSE IF res = "nofile"
                         THEN <<"error: Failed to capture screenshot">>
                         ELSE <<"error: Screenshot error">>]
    /\ hnd' = LeaveCall(hnd, task[t].sess, t)
    /\ UNCHANGED <<n, store, lock, srec, given, stopped, frames>>

\* ------------------------------------------------------ browser stream
\* handle_start_browser_stream, lines 371-385: the session and its agent
\* are looked up, then a worker thread is started, with no test for a
\* worker already running.
StartStream(s) ==
    /\ n < MaxEvents
    /\ n' = n + 1
    /\ LET t == n + 1
           r == GetSession(s)
       IN  IF r = Absent \/ ~srec[r].agent
           THEN task' = [task EXCEPT ![t] =
                    [NewTask("start", s, << >>) EXCEPT
                        !.pc = "done", !.out = <<"error">>]]
           ELSE task' = [task EXCEPT ![t] =
                    [NewTask("start", s, << >>) EXCEPT
                        !.pc = "w_get", !.sess = r,
                        !.out = <<"stream_started">>]]
    /\ stopped' = [stopped EXCEPT ![s] = FALSE]
    /\ frames' = [frames EXCEPT ![s] = 0]
    /\ UNCHANGED <<store, lock, srec, hnd, given>>

\* handle_stop_browser_stream, lines 395-401
StopStream(s) ==
    /\ n < MaxEvents
    /\ n' = n + 1
    /\ LET t == n + 1
           r == GetSession(s)
       IN  /\ task' = [task EXCEPT ![t] =
                  [NewTask("stop", s, << >>) EXCEPT
                      !.pc = "done", !.sess = r,
                      !.out = <<"stream_stopped">>]]
           /\ srec' = IF r # Absent
                      THEN [srec EXCEPT ![r].streaming = "off"]
                      ELSE srec
    /\ stopped' = [stopped EXCEPT ![s] = TRUE]
    /\ frames' = [frames EXCEPT ![s] = 0]
    /\ UNCHANGED <<store, lock, hnd, given>>

\* _browser_stream_worker lines 504-509: the worker's own lookup, then the
\* flag is set
WorkerGet(t) ==
    /\ task[t].pc = "w_get"
    /\ LET r == GetSession(task[t].sid)
       IN  IF r = Absent
           THEN /\ task' = [task EXCEPT ![t].pc = "done", ![t].sess = Absent]
                /\ UNCHANGED srec
           ELSE /\ task' = [task EXCEPT ![t].pc = "w_loop", ![t].sess = r]
                /\ srec' = [srec EXCEPT ![r].streaming = "on"]
    /\ UNCHANGED <<n, store, lock, hnd, given, stopped, frames>>

\* lines 565-567, the finally block of the worker: the flag of the record
\* the worker holds is cleared
ClearFlagSkipped(recs, r) == recs
ClearFlag(recs, r) == [recs EXCEPT ![r].streaming = "off"]

\* lines 511-515 and 557, 565-567: the flag is read at the top of the
\* loop; the worker enters save_advanced_screenshot(), or only sleeps when
\* the agent has no driver, or leaves the loop and clears the flag
WorkerLoop(t) ==
    /\ task[t].pc = "w_loop"
    /\ LET r == task[t].sess
       IN  IF srec[r].streaming # "on"
           THEN /\ task' = [task EXCEPT ![t].pc = "done"]
                /\ srec' = ClearFlag(srec, r)
                /\ UNCHANGED hnd
           ELSE IF DriverMissing(r)
           THEN UNCHANGED <<task, srec, hnd>>
           ELSE /\ task' = [task EXCEPT ![t].pc = "w_shot"]
                /\ hnd' = EnterCall(hnd, r, t)
                /\ UNCHANGED srec
    /\ UNCHANGED <<n, store, lock, given, stopped, frames>>

\* lines 515-517, 559-561: the screenshot call returns a file (the worker
\* goes on into execute_script), returns nothing usable (no frame, sleep),
\* or raises (break, the flag is cleared)
WorkerShot(t) ==
    /\ task[t].pc = "w_shot"
    /\ LET r == task[t].sess
       IN  \E res \in {"file", "nofile", "raise"} :
           IF res = "file"
           THEN /\ task' = [task EXCEPT ![t].pc = "w_cursor"]
                /\ UNCHANGED <<srec, hnd>>
           ELSE IF res = "nofile"
           THEN /\ task' = [task EXCEPT ![t].pc = "w_loop"]
                /\ hnd' = LeaveCall(hnd, r, t)
                /\ UNCHANGED srec
           ELSE /\ task' = [task EXCEPT ![t].pc = "done"]
                /\ hnd' = LeaveCall(hnd, r, t)
                /\ srec' = ClearFlag(srec, r)
    /\ UNCHANGED <<n, store, lock, given, stopped, frames>>

\* lines 535-538: execute_script returns or raises (default cursor); the
\* worker goes on into the current_url / title reads
WorkerCursor(t) ==
    /\ task[t].pc = "w_cursor"
    /\ \E ok \in BOOLEAN :
          task' = [task EXCEPT
              ![t].pc = "w_info",
              ![t].resp = IF ok THEN "cursor" ELSE "cursor_default"]
    /\ UNCHANGED <<n, store, lock, srec, hnd, given, stopped, frames>>

\* lines 541-557: the reads return or raise (default info), the frame is
\* emitted to the room of the session id, the worker sleeps
WorkerInfo(t) ==
    /\ task[t].pc = "w_info"
    /\ \E ok \in BOOLEAN :
          task' = [task EXCEPT
              ![t].pc = "w_loop",
              ![t].rooms = @ \cup {Room(t)},
              ![t].acts = <<task[t].resp, IF ok THEN "info" ELSE "info_default">>]
    /\ hnd' = LeaveCall(hnd, task[t].sess, t)
    /\ frames' = [frames EXCEPT ![task[t].sid] =
                     IF stopped[task[t].sid] THEN Min(@ + 1, MaxFrames) ELSE @]
    /\ UNCHANGED <<n, store, lock, srec, given, stopped>>

\* --------------------------------------------------------- specifications
\* SessionManager alone: create_session and cleanup_session callers racing
\* on several session ids
StoreSids == 1..NumSids

StoreNext ==
    \/ \E s \in StoreSids : InitializeSession(s)
    \/ \E t \in Slots : CreateConstruct(t)
    \/ \E s \in StoreSids : Disconnect(s)
    \/ \E t \in Slots : CleanupReturn(t)

SpecStore == Init /\ [][StoreNext]_vars

\* one client: its session, its messages and their processing threads,
\* its disconnect
Client == 1

CmdMessages ==
    { << >>, <<"hello">>, <<"go to", "google">>, <<"search", "cats">>,
      <<"screenshot">> }

Next ==
    \/ n < CmdEvents /\ InitializeSession(Client)
    \/ \E t \in Slots : CreateConstruct(t)
    \/ n < CmdEvents /\ Disconnect(Client)
    \/ \E t \in Slots : CleanupReturn(t)
    \/ n < CmdEvents /\ \E m \in CmdMessages : SendMessage(Client, m)
    \/ \E t \in Slots : MsgAccept(t)
    \/ \E t \in Slots : ProcGet(t)
    \/ \E t \in Slots : ProcCheck(t)
    \/ \E t \in Slots : ProcInitDriver(t)
    \/ \E t \in Slots : ProcInitBlank(t)
    \/ \E t \in Slots : ProcAct(t)
    \/ \E t \in Slots : ProcNav(t)
    \/ \E t \in Slots : ProcSearchUrl(t)
    \/ \E t \in Slots : ProcSearchBox(t)
    \/ \E t \in Slots : ProcShot(t)
    \/ \E t \in Slots : ProcInfo(t)
    \/ \E t \in Slots : ProcFinish(t)

Spec == Init /\ [][Next]_vars

\* one client: its session, stream start / stop events and the stream
\* workers, beside a navigation command
StreamNext ==
    \/ n < StreamEvents /\ InitializeSession(Client)
    \/ \E t \in Slots : CreateConstruct(t)
    \/ n < StreamEvents /\ SendMessage(Client, <<"go to", "github">>)
    \/ \E t \in Slots : MsgAccept(t)
    \/ \E t \in Slots : ProcGet(t)
    \/ \E t \in Slots : ProcCheck(t)
    \/ \E t \in Slots : ProcInitDriver(t)
    \/ \E t \in Slots : ProcInitBlank(t)
    \/ \E t \in Slots : ProcAct(t)
    \/ \E t \in Slots : ProcNav(t)
    \/ \E t \in Slots : ProcInfo(t)
    \/ \E t \in Slots : ProcFinish(t)
    \/ n < StreamEvents /\ StartStream(Client)
    \/ n < StreamEvents /\ StopStream(Client)
    \/ \E t \in Slots : WorkerGet(t)
    \/ \E t \in Slots : WorkerLoop(t)
    \/ \E t \in Slots : WorkerShot(t)
    \/ \E t \in Slots : WorkerCursor(t)
    \/ \E t \in Slots : WorkerInfo(t)

SpecStream == Init /\ [][StreamNext]_vars

\* no stream worker of the client is alive (started and not yet ended)
NoWorker == \A t \in Slots : task[t].kind = "start" => task[t].pc = "done"

\* the same client, when it sends start_browser_stream only while none of
\* its stream workers is alive
StreamOnceNext ==
    \/ n < StreamEvents /\ InitializeSession(Client)
    \/ \E t \in Slots : CreateConstruct(t)
    \/ n < StreamEvents /\ SendMessage(Client, <<"go to", "github">>)
    \/ \E t \in Slots : MsgAccept(t)
    \/ \E t \in Slots : ProcGet(t)
    \/ \E t \in Slots : ProcCheck(t)
    \/ \E t \in Slots : ProcInitDriver(t)
    \/ \E t \in Slots : ProcInitBlank(t)
    \/ \E t \in Slots : ProcAct(t)
    \/ \E t \in Slots : ProcNav(t)
    \/ \E t \in Slots : ProcInfo(t)
    \/ \E t \in Slots : ProcFinish(t)
    \/ n < StreamEvents /\ NoWorker /\ StartStream(Client)
    \/ n < StreamEvents /\ StopStream(Client)
    \/ \E t \in Slots : WorkerGet(t)
    \/ \E t \in Slots : WorkerLoop(t)
    \/ \E t \in Slots : WorkerShot(t)
    \/ \E t \in Slots : WorkerCursor(t)
    \/ \E t \in Slots : WorkerInfo(t)

SpecStreamOnce == Init /\ [][StreamOnceNext]_vars

\* one client: its session and its messages, empty or a navigation, with
\* their processing threads
DispatchEvents == 3

DispatchMessages == { << >>, <<"go to", "github">> }

DispatchNext ==
    \/ n < DispatchEvents /\ InitializeSession(Client)
    \/ \E t \in Slots : CreateConstruct(t)
    \/ n < DispatchEvents /\ \E m \in DispatchMessages : SendMessage(Client, m)
    \/ \E t \in Slots : MsgAccept(t)
    \/ \E t \in Slots : ProcGet(t)
    \/ \E t \in Slots : ProcCheck(t)
    \/ \E t \in Slots : ProcInitDriver(t)
    \/ \E t \in Slots : ProcInitBlank(t)
    \/ \E t \in Slots : ProcAct(t)
    \/ \E t \in Slots : ProcNav(t)
    \/ \E t \in Slots : ProcInfo(t)
    \/ \E t \in Slots : ProcFinish(t)

SpecDispatch == Init /\ [][DispatchNext]_vars

\* one client: its session, a command that makes the agent start its
\* driver, and screenshot requests
ShotEvents == 3

ShotNext ==
    \/ n < ShotEvents /\ InitializeSession(Client)
    \/ \E t \in Slots : CreateConstruct(t)
    \/ n < ShotEvents /\ SendMessage(Client, <<"hello">>)
    \/ \E t \in Slots : MsgAccept(t)
    \/ \E t \in Slots : ProcGet(t)
    \/ \E t \in Slots : ProcCheck(t)
    \/ \E t \in Slots : ProcInitDriver(t)
    \/ \E t \in Slots : ProcInitBlank(t)
    \/ \E t \in Slots : ProcAct(t)
    \/ \E t \in Slots : ProcInfo(t)
    \/ \E t \in Slots : ProcFinish(t)
    \/ n < ShotEvents /\ ScreenshotRequest(Client)
    \/ \E t \in Slots : ScreenshotReturn(t)

SpecShot == Init /\ [][ShotNext]_vars

\* two clients A and B, each with its session, a command and a stream
RoomSids == {1, 2}
RoomEvents == 4

RoomNext ==
    \/ n < RoomEvents /\ \E s \in RoomSids : InitializeSession(s)
    \/ \E t \in Slots : CreateConstruct(t)
    \/ n < RoomEvents /\ \E s \in RoomSids : SendMessage(s, <<"hello">>)
    \/ \E t \in Slots : MsgAccept(t)
    \/ \E t \in Slots : ProcGet(t)
    \/ \E t \in Slots : ProcCheck(t)
    \/ \E t \in Slots : ProcInitDriver(t)
    \/ \E t \in Slots : ProcInitBlank(t)
    \/ \E t \in Slots : ProcAct(t)
    \/ \E t \in Slots : ProcInfo(t)
    \/ \E t \in Slots : ProcFinish(t)
    \/ n < RoomEvents /\ \E s \in RoomSids : StartStream(s)
    \/ \E t \in Slots : WorkerGet(t)
    \/ \E t \in Slots : WorkerLoop(t)
    \/ \E t \in Slots : WorkerShot(t)
    \/ \E t \in Slots : WorkerCursor(t)
    \/ \E t \in Slots : WorkerInfo(t)

SpecRooms == Init /\ [][RoomNext]_vars

\* clients that connect, initialize their session and disconnect
ConnectEvents == 3

ConnectNext ==
    \/ n < ConnectEvents /\ \E s \in StoreSids : Connect(s)
    \/ n < ConnectEvents /\ \E s \in StoreSids : InitializeSession(s)
    \/ \E t \in Slots : CreateConstruct(t)
    \/ n < ConnectEvents /\ \E s \in StoreSids : Disconnect(s)
    \/ \E t \in Slots : CleanupReturn(t)

SpecConnect == Init /\ [][ConnectNext]_vars

\* one client: its session, a command, a stream start and a disconnect,
\* every started thread and every call in progress going on (weak fairness
\* of each step of the background threads and of the calls that return)
LoopEvents == 4

LoopNext ==
    \/ n < LoopEvents /\ InitializeSession(Client)
    \/ \E t \in Slots : CreateConstruct(t)
    \/ n < LoopEvents /\ Disconnect(Client)
    \/ \E t \in Slots : CleanupReturn(t)
    \/ n < LoopEvents /\ SendMessage(Client, <<"hello">>)
    \/ \E t \in Slots : MsgAccept(t)
    \/ \E t \in Slots : ProcGet(t)
    \/ \E t \in Slots : ProcCheck(t)
    \/ \E t \in Slots : ProcInitDriver(t)
    \/ \E t \in Slots : ProcInitBlank(t)
    \/ \E t \in Slots : ProcAct(t)
    \/ \E t \in Slots : ProcInfo(t)
    \/ \E t \in Slots : ProcFinish(t)
    \/ n < LoopEvents /\ StartStream(Client)
    \/ \E t \in Slots : WorkerGet(t)
    \/ \E t \in Slots : WorkerLoop(t)
    \/ \E t \in Slots : WorkerShot(t)
    \/ \E t \in Slots : WorkerCursor(t)
    \/ \E t \in Slots : WorkerInfo(t)

LoopFairness ==
    \A t \in Slots :
        /\ WF_vars(CreateConstruct(t))
        /\ WF_vars(CleanupReturn(t))
        /\ WF_vars(MsgAccept(t))
        /\ WF_vars(ProcGet(t))
        /\ WF_vars(ProcCheck(t))
        /\ WF_vars(ProcInitDriver(t))
        /\ WF_vars(ProcInitBlank(t))
        /\ WF_vars(ProcAct(t))
        /\ WF_vars(ProcInfo(t))
        /\ WF_vars(ProcFinish(t))
        /\ WF_vars(WorkerGet(t))
        /\ WF_vars(WorkerLoop(t))
        /\ WF_vars(WorkerShot(t))
        /\ WF_vars(WorkerCursor(t))
        /\ WF_vars(WorkerInfo(t))

SpecLoopFair == Init /\ [][LoopNext]_vars /\ LoopFairness

\* one client: its session, a command, stream starts and stops
FlagEvents == 3

FlagNext ==
    \/ n < FlagEvents /\ InitializeSession(Client)
    \/ \E t \in Slots : CreateConstruct(t)
    \/ n < FlagEvents /\ SendMessage(Client, <<"hello">>)
    \/ \E t \in Slots : MsgAccept(t)
    \/ \E t \in Slots : ProcGet(t)
    \/ \E t \in Slots : ProcCheck(t)
    \/ \E t \in Slots : ProcInitDriver(t)
    \/ \E t \in Slots : ProcInitBlank(t)
    \/ \E t \in Slots : ProcAct(t)
    \/ \E t \in Slots : ProcInfo(t)
    \/ \E t \in Slots : ProcFinish(t)
    \/ n < FlagEvents /\ StartStream(Client)
    \/ n < FlagEvents /\ StopStream(Client)
    \/ \E t \in Slots : WorkerGet(t)
    \/ \E t \in Slots : WorkerLoop(t)
    \/ \E t \in Slots : WorkerShot(t)
    \/ \E t \in Slots : WorkerCursor(t)
    \/ \E t \in Slots : WorkerInfo(t)

SpecFlag == Init /\ [][FlagNext]_vars

\* one client: its session and commands whose text matches several
\* intents at once (navigation and search, search and screenshot)
IntentEvents == 3

IntentMessages ==
    { <<"go to", "github", "search">>, <<"search", "screenshot">> }

IntentNext ==
    \/ n < IntentEvents /\ InitializeSession(Client)
    \/ \E t \in Slots : CreateConstruct(t)
    \/ n < IntentEvents /\ \E m \in IntentMessages : SendMessage(Client, m)
    \/ \E t \in Slots : MsgAccept(t)
    \/ \E t \in Slots : ProcGet(t)
    \/ \E t \in Slots : ProcCheck(t)
    \/ \E t \in Slots : ProcInitDriver(t)
    \/ \E t \in Slots : ProcInitBlank(t)
    \/ \E t \in Slots : ProcAct(t)
    \/ \E t \in Slots : ProcNav(t)
    \/ \E t \in Slots : ProcSearchUrl(t)
    \/ \E t \in Slots : ProcInfo(t)
    \/ \E t \in Slots : ProcFinish(t)

SpecIntent == Init /\ [][IntentNext]_vars

\* ------------------------------------------------------------ the claims
Running == {"p_check", "p_init", "p_blank", "p_act", "p_nav", "p_url",
            "p_box", "p_shot", "p_info", "p_finish"}
Looping == {"w_loop", "w_shot", "w_cursor", "w_info"}

\* the events the step appends to the output of slot t
NewOut(t) == SubSeq(task'[t].out, Len(task[t].out) + 1, Len(task'[t].out))

\* C1: every create_session(id) since id was last deleted returned one and
\* the same record (with its one handle), the record the store holds for id;
\* the store never holds a second one.
C1_CreateIdempotent ==
    \A s \in Sids : Absent \notin given[s] /\ given[s] \subseteq {store[s]}

C1_Witness ==
    \E t1, t2 \in Slots :
        /\ t1 < t2
        /\ task[t1].kind = "init" /\ task[t1].pc = "done"
        /\ task[t2].kind = "init" /\ task[t2].pc = "done"
        /\ task[t1].sid = task[t2].sid
        /\ task[t1].sess = t1 /\ task[t2].sess = t1
        /\ srec[t1].agent

\* the step in which cleanup_session of slot t returns
CleanupReturns(t) ==
    /\ task'[t].kind = "disconnect"
    /\ task[t].pc # "done"
    /\ task'[t].pc = "done"

\* C2: when cleanup_session(id) returns, get_session(id) is absent, no error
\* was raised, no session record changed and no other id's entry changed;
\* on an id the store does not hold (a second cleanup, or a never created
\* id) nothing changes at all.
C2_CleanupRemoves ==
    [][\A t \in Slots, s \in Sids :
          (CleanupReturns(t) /\ task'[t].sid = s) =>
              /\ ~task'[t].raised
              /\ GetSession(s)' = Absent
              /\ \A s2 \in Sids \ {s} : store'[s2] = store[s2]
              /\ srec' = srec
              /\ \A r \in Slots \ {task'[t].sess} : hnd'[r] = hnd[r]
              /\ store[s] = Absent =>
                    store' = store /\ hnd' = hnd /\ given' = given]_vars

C2_Witness ==
    \E t1, t2 \in Slots :
        /\ t1 < t2
        /\ task[t1].kind = "disconnect" /\ task[t1].pc = "done"
        /\ task[t2].kind = "disconnect" /\ task[t2].pc = "done"
        /\ task[t1].sid = task[t2].sid
        /\ task[t1].sess # Absent /\ hnd[task[t1].sess].cleaned = 1
        /\ task[t2].sess = Absent /\ ~task[t2].raised
        /\ \E s2 \in Sids \ {task[t1].sid} : store[s2] # Absent

\* C3: while a command-processing task is inside a call into a session's
\* handle, no stream worker and no other command task is inside a call into
\* the same handle.
C3_NoInterleavedCalls ==
    \A r \in Slots :
        LET cmds == {t \in hnd[r].calls : task[t].kind = "message"}
            streams == {t \in hnd[r].calls : task[t].kind = "start"}
        IN  cmds # {} => Cardinality(cmds) = 1 /\ streams = {}

\* C4: at most one stream sampling loop runs per session.
C4_OneLoop ==
    \A s \in Sids :
        Cardinality({t \in Slots : /\ task[t].kind = "start"
                                   /\ task[t].sid = s
                                   /\ task[t].pc \in Looping}) <= 1

\* C5: once a stop_browser_stream was handled, and until the next
\* start_browser_stream arrives, at most one frame (the sample in flight)
\* is emitted for the session.
C5_FramesEndAfterStop ==
    \A s \in Sids : stopped[s] => frames[s] <= 1

\* C6: a command-processing task that ended had typing_stop emitted after
\* the typing_start of its message.
C6_TypingStops ==
    \A t \in Slots :
        (/\ task[t].kind = "message"
         /\ task[t].pc = "done"
         /\ \E i \in 1..Len(task[t].out) : task[t].out[i] = "typing_start")
        => \E j \in 1..Len(task[t].out) : task[t].out[j] = "typing_stop"

\* C7: a session is in status processing only while one of its commands is
\* running (so a failed driver initialization leaves it ready).
C7_NotStuckProcessing ==
    \A r \in Slots :
        srec[r].status = "processing" =>
            \E t \in Slots : /\ task[t].kind = "message"
                             /\ task[t].sess = r
                             /\ task[t].pc \in Running

\* C8: a command task whose session record is no longer in the store emits
\* none of typing_stop, agent_response, status_update, browser_info,
\* browser_screenshot.
C8_DiscardsWhenGone ==
    [][\A t \in Slots :
          (/\ task[t].kind = "message"
           /\ task[t].pc \in Running
           /\ store[task[t].sid] # task[t].sess)
          => \A i \in 1..Len(NewOut(t)) :
                NewOut(t)[i] \notin
                    {"typing_stop", "agent_response", "status_update_ready",
                     "status_update_processing", "browser_info",
                     "browser_screenshot"}]_vars

\* the step in which get_session or create_session hands a record to slot t
Returned(t) ==
    /\ task'[t].kind \in {"init", "message", "start", "stop"}
    /\ task[t].pc \in {"idle", "constructing", "p_get", "w_get"}
    /\ task'[t].sess # Absent

\* C9: no get_session or create_session returns a record on whose handle
\* cleanup() was already called.
C9_NoCleanedRecordReturned ==
    [][\A t \in Slots :
          Returned(t) => hnd'[task'[t].sess].cleaned = 0]_vars

\* the step in which create_session of slot t returns after its agent
\* constructor raised
ConstructionFails(t) ==
    /\ task[t].kind = "init"
    /\ task[t].pc = "constructing"
    /\ task'[t].pc = "done"
    /\ ~srec'[t].agent

\* C10: when the agent constructor fails in create_session(id), the call
\* returns without raising, and get_session(id) then yields the registered
\* record, which has status error and the failure reason.
C10_FailedCreateRegisters ==
    [][\A t \in Slots, s \in Sids :
          (ConstructionFails(t) /\ task[t].sid = s) =>
              LET r == task'[t].sess
              IN  /\ ~task'[t].raised
                  /\ r # Absent
                  /\ GetSession(s)' = r
                  /\ srec'[r].status = "error"
                  /\ srec'[r].error]_vars

C10_Witness ==
    \E t \in Slots :
        /\ task[t].kind = "init" /\ task[t].pc = "done"
        /\ task[t].sess = t
        /\ store[task[t].sid] = t
        /\ ~srec[t].agent /\ srec[t].error /\ srec[t].status = "error"

\* C11: when agent.cleanup() raises inside cleanup_session(id), the call
\* returns without raising and the record of id is gone from the store.
C11_CleanupFailureSwallowed ==
    [][\A t \in Slots, s \in Sids :
          (/\ CleanupReturns(t)
           /\ task'[t].sid = s
           /\ task'[t].resp = "cleanup_raised") =>
              /\ ~task'[t].raised
              /\ GetSession(s)' = Absent]_vars

C11_Witness ==
    \E t \in Slots :
        /\ task[t].kind = "disconnect" /\ task[t].pc = "done"
        /\ task[t].resp = "cleanup_raised"
        /\ ~task[t].raised
        /\ task[t].sess # Absent
        /\ store[task[t].sid] = Absent

\* record r was built and is no longer the record the store holds for its id
Removed(r) == srec[r].id # Absent /\ store[srec[r].id] # r

\* C12: cleanup() is called on a session's agent exactly once, by the
\* cleanup_session that removes the record, however many disconnects and
\* cleanup_session calls there are; a record without agent is removed with
\* no cleanup() call and no error.
C12_CleanupExactlyOnce ==
    /\ \A r \in Slots :
          srec[r].id # Absent =>
              /\ hnd[r].cleaned <= 1
              /\ ~srec[r].agent => hnd[r].cleaned = 0
              /\ (Removed(r) /\ srec[r].agent) => hnd[r].cleaned = 1
              /\ (~Removed(r) /\ hnd[r].cleaned = 1) =>
                    \E t \in Slots : /\ task[t].kind = "disconnect"
                                     /\ task[t].pc = "cleaning"
                                     /\ task[t].sess = r
    /\ \A t \in Slots : task[t].kind = "disconnect" => ~task[t].raised

C12_Witness ==
    \E t1, t2 \in Slots :
        /\ t1 # t2
        /\ task[t1].kind = "disconnect" /\ task[t1].pc = "done"
        /\ task[t2].kind = "disconnect" /\ task[t2].pc = "done"
        /\ task[t1].sid = task[t2].sid
        /\ task[t1].sess # Absent
        /\ srec[task[t1].sess].agent
        /\ Removed(task[t1].sess)
        /\ hnd[task[t1].sess].cleaned = 1

\* slot t has emitted event e
Emitted(t, e) == \E i \in 1..Len(task[t].out) : task[t].out[i] = e

\* C13: a command whose text matches no intent, once its processing has
\* begun, ends with an agent_response carrying the fallback guidance text
\* and an action log of exactly one entry, completed, whatever the state of
\* the driver.
C13_FallbackAlwaysSucceeds ==
    \A t \in Slots :
        (/\ task[t].kind = "message"
         /\ task[t].msg # << >>
         /\ Intent(task[t].msg) = "fallback"
         /\ Emitted(t, "status_update_processing")
         /\ task[t].pc = "done")
        => /\ Emitted(t, "agent_response")
           /\ task[t].resp = "fallback_guidance"
           /\ task[t].acts = <<<<"analyze_request", "completed">>>>

\* the destination keywords of lines 618-629 a text contains
Destinations == {"google", "github", "example"}
NamedIn(m) == {d \in Destinations : Contains(m, d)}
NavigationText(m) ==
    /\ Contains(m, "navigate") \/ Contains(m, "go to")
    /\ NamedIn(m) # {}

\* C14 as stated: every command containing navigate / go to and a
\* recognized destination that is answered has an action log whose last
\* entry is completed and a response naming that destination.
C14_NavigationCompletes ==
    \A t \in Slots :
        (/\ task[t].kind = "message"
         /\ NavigationText(task[t].msg)
         /\ Emitted(t, "agent_response"))
        => /\ task[t].acts # << >>
           /\ task[t].acts[Len(task[t].acts)][2] = "completed"
           /\ task[t].resp \in NamedIn(task[t].msg)

\* C14 amended: for such a command, when driver.get returned the log is the
\* one entry navigate_to_<destination>, completed, and the response names a
\* destination of the text; when driver.get raised the log is the one entry
\* error_handling, failed.
C14_NavigationCompletesIfGetReturns ==
    \A t \in Slots :
        (/\ task[t].kind = "message"
         /\ NavigationText(task[t].msg)
         /\ task[t].got # "none")
        => IF task[t].got = "returned"
           THEN /\ task[t].resp \in NamedIn(task[t].msg)
                /\ task[t].acts =
                       <<<<"navigate_to_" \o task[t].resp, "completed">>>>
           ELSE /\ task[t].resp = "error"
                /\ task[t].acts = <<<<"error_handling", "failed">>>>

C14_Witness ==
    \E t \in Slots :
        /\ task[t].kind = "message"
        /\ NavigationText(task[t].msg)
        /\ task[t].got = "returned"
        /\ task[t].pc = "done"
        /\ Emitted(t, "agent_response")
        /\ task[t].resp = "github"
        /\ hnd[task[t].sess].loc = "github"

\* C15: a search command processed while the last known location of the
\* session (browser_url) is not a search surface makes, from its dispatch
\* on, no call into the agent.
C15_SearchMakesNoCall ==
    \A t \in Slots :
        (/\ task[t].kind = "message"
         /\ Intent(task[t].msg) = "search"
         /\ task[t].pc \in {"p_act", "p_url", "p_box", "p_info", "p_finish"}
         /\ srec[task[t].sess].browser_url # "google")
        => t \notin hnd[task[t].sess].calls

\* C20: when command processing emits error for a failure, the status of
\* the session is error and the store is unchanged.
C20_FailureSetsError ==
    [][\A t \in Slots :
          (/\ task[t].kind = "message"
           /\ task[t].pc \in Running \cup {"p_get"}
           /\ task'[t].sess # Absent
           /\ \E i \in 1..Len(NewOut(t)) : NewOut(t)[i] = "error")
          => /\ srec'[task'[t].sess].status = "error"
             /\ store' = store]_vars

\* the step in which an event of the given kind arrives and takes slot t
Arrives(t, k) == task[t].kind = "none" /\ task'[t].kind = k

\* C16 as stated: get_browser_screenshot for a session whose driver was
\* never initialized is answered with the error 'not initialized', with no
\* call into the agent and no change of any record.
C16_NotInitializedError ==
    [][\A t \in Slots, s \in Sids :
          (/\ Arrives(t, "shot")
           /\ task'[t].sid = s
           /\ GetSession(s) # Absent
           /\ hnd[GetSession(s)].driver = "none")
          => /\ task'[t].out = <<"error: Browser session not initialized">>
             /\ task'[t].pc = "done"
             /\ hnd' = hnd /\ srec' = srec /\ store' = store]_vars

\* C16 amended: the same for a session whose agent was constructed; a
\* session registered with agent None is answered 'No active session found'
\* instead, also with no call and no change.
C16_NotInitializedErrorWithAgent ==
    [][\A t \in Slots, s \in Sids :
          (/\ Arrives(t, "shot")
           /\ task'[t].sid = s
           /\ GetSession(s) # Absent
           /\ hnd[GetSession(s)].driver = "none")
          => /\ task'[t].out =
                    IF srec[GetSession(s)].agent
                    THEN <<"error: Browser session not initialized">>
                    ELSE <<"error: No active session found">>
             /\ task'[t].pc = "done"
             /\ hnd' = hnd /\ srec' = srec /\ store' = store]_vars

C16_Witness ==
    \E t \in Slots :
        /\ task[t].kind = "shot" /\ task[t].pc = "done"
        /\ task[t].sess # Absent
        /\ srec[task[t].sess].agent
        /\ task[t].out = <<"error: Browser session not initialized">>
        /\ hnd[task[t].sess].calls = {}

\* C17: a send_message whose stripped text is empty, or whose session id
\* the store does not hold, ends with the one event error: no record, no
\* handle and no store entry changes, and the handler goes no further (no
\* typing_start, no processing thread).
C17_RejectedMessageNoEffect ==
    [][\A t \in Slots, s \in Sids :
          (/\ Arrives(t, "message")
           /\ task'[t].sid = s
           /\ task'[t].msg = << >> \/ GetSession(s) = Absent)
          => /\ task'[t].out = <<"error">>
             /\ task'[t].pc = "done"
             /\ task'[t].rooms = {}
             /\ srec' = srec /\ hnd' = hnd /\ store' = store
             /\ lock' = lock]_vars

C17_Witness ==
    \E t1, t2 \in Slots :
        /\ task[t1].kind = "message" /\ task[t1].pc = "done"
        /\ task[t1].msg = << >> /\ task[t1].out = <<"error">>
        /\ store[task[t1].sid] # Absent
        /\ srec[store[task[t1].sid]].message_history = << >>
        /\ srec[store[task[t1].sid]].last_activity < t1
        /\ task[t2].kind = "message" /\ task[t2].pc = "done"
        /\ task[t2].msg # << >> /\ task[t2].out = <<"error">>
        /\ task[t2].sess = Absent

\* in the output of slot t every event a comes before every event b
Before(t, a, b) ==
    \A i, j \in 1..Len(task[t].out) :
        (task[t].out[i] = a /\ task[t].out[j] = b) => i < j

C19_OwnChannelOnly ==
    [][\A t \in Slots :
          /\ task'[t].rooms \subseteq {task'[t].sid}
          /\ task'[t] # task[t] =>
                LET a == task'[t].sid
                IN  /\ \A b \in Sids \ {a} : store'[b] = store[b]
                    /\ \A r \in Slots :
                          srec[r].id \notin {Absent, a} =>
                              srec'[r] = srec[r] /\ hnd'[r] = hnd[r]
                    /\ \A t2 \in Slots \ {t} : task'[t2] = task[t2]]_vars

C19_Witness ==
    \E t1, t2 \in Slots :
        /\ task[t1].kind = "start" /\ task[t1].rooms = {task[t1].sid}
        /\ task[t2].kind = "message" /\ task[t2].rooms = {task[t2].sid}
        /\ task[t1].sid = task[t2].sid
        /\ \E b \in Sids \ {task[t1].sid} : store[b] # Absent

\* C21: a command that finds its session without a started driver (the
\* agent constructor or an earlier driver start failed) re-attempts the
\* start: it goes into agent._initialize_driver().
C21_CommandRetriesInitialization ==
    [][\A t \in Slots :
          (/\ task[t].kind = "message"
           /\ task[t].pc = "p_check"
           /\ task'[t].pc # "p_check"
           /\ DriverMissing(task[t].sess))
          => /\ task'[t].pc = "p_init"
             /\ t \in hnd'[task[t].sess].calls]_vars

\* C22 as stated: when a connect event was handled, the connected event
\* was emitted and the store holds a record of status initialized for the
\* client's id.
C22_ConnectCreatesSession ==
    [][\A t \in Slots, s \in Sids :
          (Arrives(t, "connect") /\ task'[t].sid = s)
          => /\ task'[t].out = <<"connected">>
             /\ store'[s] # Absent
             /\ srec'[store'[s]].status = "initialized"]_vars

\* C22 amended: a connect event emits connected and changes neither the
\* store nor any record; it is create_session, called for initialize_session,
\* that puts the record into the store, with status initialized when the
\* agent was built.
C22_InitializeCreatesSession ==
    [][\A t \in Slots, s \in Sids :
          /\ (Arrives(t, "connect") /\ task'[t].sid = s)
             => /\ task'[t].out = <<"connected">>
                /\ task'[t].pc = "done"
                /\ store' = store /\ srec' = srec /\ hnd' = hnd
          /\ (/\ task[t].kind = "init"
              /\ task[t].pc = "constructing"
              /\ task'[t].pc = "done"
              /\ task'[t].sid = s)
             => /\ store'[s] = t
                /\ srec'[t].id = s
                /\ srec'[t].agent => srec'[t].status = "initialized"]_vars

C22_Witness ==
    \E t1, t2 \in Slots :
        /\ t1 < t2
        /\ task[t1].kind = "connect" /\ task[t1].pc = "done"
        /\ task[t1].out = <<"connected">>
        /\ task[t2].kind = "init" /\ task[t2].pc = "done"
        /\ task[t2].sid = task[t1].sid
        /\ \A t \in Slots : task[t].kind = "init" => t >= t2
        /\ store[task[t1].sid] = t2
        /\ srec[t2].status = "initialized"

\* C23: when an initialize_session event was handled with success (the
\* session_initialized event emitted for a record whose agent was built),
\* the status stored in the record is ready.
C23_InitializedIsReady ==
    [][\A t \in Slots :
          (/\ task'[t].kind = "init"
           /\ task[t].pc # "done"
           /\ task'[t].pc = "done"
           /\ task'[t].sess # Absent
           /\ srec'[task'[t].sess].agent)
          => srec'[task'[t].sess].status = "ready"]_vars

\* C24: a stream worker in its loop whose session record is no longer the
\* one in the store (the client disconnected) eventually ends.
C24_LoopEndsAfterRemoval ==
    \A t \in Slots :
        (/\ task[t].kind = "start"
         /\ task[t].pc \in Looping
         /\ store[task[t].sid] # task[t].sess)
        ~> (task[t].pc = "done")

\* the stream workers in their loop on record r
LoopsOn(r) ==
    {t \in Slots : task[t].kind = "start" /\ task[t].sess = r
                   /\ task[t].pc \in Looping}

\* C25: when a stream worker leaves its loop (flag read false, or a break
\* after an exception) the streaming flag of its record is false right
\* after; and a record's flag is true only while a worker is in its loop on
\* that record.
C25_FlagClearedAtLoopEnd ==
    [][/\ \A t \in Slots :
             (/\ task[t].kind = "start"
              /\ task[t].pc \in Looping
              /\ task'[t].pc = "done")
             => srec'[task[t].sess].streaming = "off"
       /\ \A r \in Slots :
             srec'[r].streaming = "on" =>
                \E t \in Slots : /\ task'[t].kind = "start"
                                 /\ task'[t].sess = r
                                 /\ task'[t].pc \in Looping]_vars

C25_Witness ==
    \E t1, t2 \in Slots :
        /\ t1 # t2
        /\ task[t1].kind = "start" /\ task[t1].pc = "done"
        /\ task[t1].sess # Absent
        /\ task[t2].kind \in {"stop", "message"} /\ task[t2].pc = "done"
        /\ task[t2].sess = task[t1].sess
        /\ srec[task[t1].sess].streaming = "off"
        /\ LoopsOn(task[t1].sess) = {}

\* C26: an iteration of the stream loop that has begun sampling ends with
\* its frame emitted and the worker back at the top of the loop, whichever
\* sample failed.
C26_SampleFailureKeepsFrame ==
    [][\A t \in Slots :
          (/\ task[t].kind = "start"
           /\ task[t].pc \in {"w_shot", "w_cursor", "w_info"}
           /\ task'[t].pc \notin {"w_shot", "w_cursor", "w_info"})
          => /\ task'[t].pc = "w_loop"
             /\ Room(t) \in task'[t].rooms
             /\ task[t].pc = "w_info"]_vars

\* C27: no thread holds the store lock while it constructs an agent.
C27_ConstructsOutsideLock ==
    \A t \in Slots : task[t].pc = "constructing" => lock # t

\* C28: every thread inside a call into an agent is a background thread
\* (command processing or stream worker), never an event handler.
C28_NoInlineBrowserCall ==
    \A r \in Slots :
        \A t \in hnd[r].calls : task[t].kind \in {"message", "start"}

StatusSteps ==
    { <<"initialized", "processing">>, <<"processing", "ready">>,
      <<"ready", "processing">>, <<"error", "processing">> }
    \cup { <<x, "error">> : x \in {"initialized", "processing", "ready"} }

\* C30: the status of a session record is one of initialized, processing,
\* ready, error, and every change of it is one of the steps above.
C30_StatusSteps ==
    [][\A r \in Slots :
          srec'[r].id # Absent =>
              /\ srec'[r].status \in {"initialized", "processing", "ready", "error"}
              /\ (srec[r].id # Absent /\ srec'[r].status # srec[r].status)
                 => <<srec[r].status, srec'[r].status>> \in StatusSteps]_vars

\* sequence a is an initial part of sequence b
IsPrefix(a, b) == Len(a) <= Len(b) /\ SubSeq(b, 1, Len(a)) = a

\* C31: the message history of a session record only grows at its end, and
\* every agent message in it comes after the user message of the command
\* (slot) that produced it.
C31_HistoryAppendOnly ==
    [][\A r \in Slots :
          /\ srec[r].id # Absent =>
                IsPrefix(srec[r].message_history, srec'[r].message_history)
          /\ LET h == srec'[r].message_history
             IN  \A i \in 1..Len(h) :
                    h[i][1] = "agent" =>
                        \E j \in 1..(i - 1) : h[j] = <<"user", h[i][2]>>]_vars

\* the earliest intent, in the order navigation, search, screenshot,
\* fallback, whose words the text contains
Earliest(m) ==
    IF Contains(m, "navigate") \/ Contains(m, "go to") THEN 1
    ELSE IF Contains(m, "search") THEN 2
    ELSE IF Contains(m, "screenshot") \/ Contains(m, "capture") THEN 3
    ELSE 4

\* the action names and the handle calls of each branch
BranchActions ==
    << {"navigate_to_google", "navigate_to_github", "navigate_to_example",
        "parse_navigation_request"},
       {"find_search_box", "enter_search_terms", "submit_search",
        "search_attempt", "search_validation", "search_prerequisite_check"},
       {"capture_screenshot"},
       {"analyze_request"} >>
BranchPcs == << {"p_nav"}, {"p_url", "p_box"}, {"p_shot"}, {} >>

\* C32: a command runs the branch of the earliest intent its text matches
\* and no other: it is inside no call of another branch, and its action
\* entries are that branch's (or the one entry error_handling when the
\* branch raised).
C32_FirstMatchWins ==
    \A t \in Slots :
        (task[t].kind = "message" /\ task[t].msg # << >>) =>
            LET k == Earliest(task[t].msg)
            IN  /\ \A j \in (1..4) \ {k} : task[t].pc \notin BranchPcs[j]
                /\ \A i \in 1..Len(task[t].acts) :
                      task[t].acts[i][1] \in BranchActions[k] \cup {"error_handling"}

C32_Witness ==
    \E t \in Slots :
        /\ task[t].kind = "message" /\ task[t].pc = "done"
        /\ Contains(task[t].msg, "go to") /\ Contains(task[t].msg, "search")
        /\ task[t].acts = <<<<"navigate_to_github", "completed">>>>
        /\ Emitted(t, "agent_response")

\* C33: at most one command at a time is inside the driver
\* initialization of an agent.
C33_OneInitialization ==
    \A r \in Slots :
        Cardinality({t \in Slots : /\ task[t].kind = "message"
                                   /\ task[t].sess = r
                                   /\ task[t].pc \in {"p_init", "p_blank"}}) <= 1

\* C34: once cleanup() has been called on an agent, no command-processing
\* thread and no stream worker enters a call into that agent.
C34_NoCallAfterCleanup ==
    [][\A r \in Slots :
          \A t \in hnd'[r].calls \ hnd[r].calls :
              task'[t].kind \in {"message", "start"} => hnd[r].cleaned = 0]_vars

\* C35: while a command of a session is being processed, the status of the
\* session record is processing.
C35_ProcessingWhileInFlight ==
    \A t \in Slots :
        (task[t].kind = "message" /\ task[t].pc \in Running)
        => srec[task[t].sess].status = "processing"

\* C36: initialize_session emits session_initialized only for a record
\* with an agent, never for one registered after a failed construction.
C36_InitializedOnlyIfUsable ==
    \A t \in Slots :
        (task[t].kind = "init" /\ Emitted(t, "session_initialized"))
        => /\ task[t].sess # Absent
           /\ srec[task[t].sess].agent
           /\ srec[task[t].sess].status # "error"

\* C37: every accepted send_message whose session stays in the store gets
\* an agent_response or an error event, and a record in status processing
\* that stays in the store eventually leaves that status.
C37_EventuallyAnswered ==
    /\ \A t \in Slots :
          (task[t].kind = "message" /\ task[t].pc = "p_get")
          ~> \/ Emitted(t, "agent_response") \/ Emitted(t, "error")
             \/ task[t].sess = Absent \/ Removed(task[t].sess)
    /\ \A r \in Slots :
          (srec[r].status = "processing")
          ~> (srec[r].status # "processing" \/ Removed(r))

====
